---- MODULE Spec2Model ----
(***************************************************************************)
(* Model of the scanner package (scanner/scanner.go): the paginated        *)
(* listers GetAllRepositories / GetAllReleases, the per-page HTTP calls    *)
(* and the concurrent coordinator ScanRepositories with its worker pool.   *)
(*                                                                         *)
(* Strings that are only compared for equality are TLA+ strings.  A        *)
(* Repository.FullName is compared with Go's byte-wise "<", so it is a     *)
(* sequence of character codes.  A *Repository handed to a worker is the   *)
(* index of the record in the slice the lister returned (pointer           *)
(* identity).  An error value is the sequence of the pieces of its         *)
(* message; nil is the empty sequence.                                     *)
(***************************************************************************)
EXTENDS Integers, Sequences, FiniteSets, Bags, TLC

\* ------------------------------------------------------------------ bounds

\* Longest repository listing the forge holds.
MaxRepos == 2

\* The Scanner.PerPage field of the scanner under test.
ScannerPerPage == 2

\* ------------------------------------------------------- program constants

perPage == 100

maxWorkersCount == 100

VARIABLES
    user,          \* the account name passed by the caller
    forgeRepos,    \* forge: the account's repositories, in forge order
    forgeListFail, \* forge: [page, status] of the listing page it refuses (page 0: none)
    call,          \* the public method the caller invoked ("" before the call)
    ret,           \* [value, err, reqs] of a directly called lister method
    cpc,           \* ScanRepositories: position of the coordinator
    lister,        \* ScanRepositories: loop state of GetAllRepositories (line 46)
    repositories,  \* ScanRepositories: local repositories
    jobs,          \* channel of *Repository, [buf, closed]; capacity jobsCap
    results,       \* channel of *ResultItem, [buf, closed]; capacity resultsCap
    errorsClosed,  \* the unbuffered channel errors has been closed
    ctxDone,       \* ctx.Done() is closed (cancel() was called)
    workers,       \* bag of the local states of the started worker goroutines
    i,             \* ScanRepositories: loop counter of the loop at cpc
    items,         \* ScanRepositories: named result items
    err,           \* ScanRepositories: named result err
    releaseReqs    \* per job: the release requests a worker issued for it

vars == <<user, forgeRepos, forgeListFail, call, ret, cpc, lister, repositories,
          jobs, results, errorsClosed, ctxDone, workers, i, items, err, releaseReqs>>

\* ------------------------------------------------------------------ helpers

Min(a, b) == IF a < b THEN a ELSE b

nil == <<>>

\* Go's s[lo:hi] clipped to the slice, 0-based half-open.
Slice(s, lo, hi) == SubSeq(s, lo + 1, Min(hi, Len(s)))

\* Go's string "<": byte-wise lexicographic order.
StringLess(a, b) ==
    \E k \in 1..(Min(Len(a), Len(b)) + 1) :
        /\ \A j \in 1..(k - 1) : a[j] = b[j]
        /\ \/ k > Len(a) /\ k <= Len(b)
           \/ k <= Len(a) /\ k <= Len(b) /\ a[k] < b[k]

\* -------------------------------------------------------------------- forge

\* The repositories a forge may list.  RepoB and RepoC share a full name;
\* RepoE has an empty name.
RepoA == [FullName |-> <<2>>, Name |-> "a"]
RepoB == [FullName |-> <<1>>, Name |-> "b"]
RepoC == [FullName |-> <<1>>, Name |-> "c"]
RepoD == [FullName |-> <<1, 2>>, Name |-> "d"]
RepoE == [FullName |-> <<3>>, Name |-> ""]

RepoUniverse == {RepoA, RepoB, RepoC, RepoD, RepoE}

Accounts == {"", "test"}

Release(name) == [Name |-> name]

\* The releases the forge holds for a repository name, in forge order.
ForgeReleases(name) ==
    CASE name = "a" -> <<Release("v3"), Release("v2"), Release("v1")>>
      [] name = "b" -> <<>>
      [] name = "c" -> <<Release("v1")>>
      [] name = "d" -> [k \in 1..(IF ScannerPerPage <= 0 THEN perPage ELSE ScannerPerPage) |->
                          Release("v0")]
      [] OTHER -> <<>>

\* The release page of a repository the forge refuses (0: none).
ForgeReleaseFailPage(name) == IF name = "d" THEN 2 ELSE 0

\* A forge response: status and body.  StatusCode 0 stands for a request
\* that failed in transport (http.Get returns an error and no response).
Response(code, body) == [StatusCode |-> code, body |-> body]

ErrorBody(code) ==
    IF code = 403 THEN [json |-> TRUE, Message |-> "forbidden"]
    ELSE IF code = 404 THEN [json |-> TRUE, Message |-> "Not Found"]
    ELSE [json |-> FALSE, Message |-> ""]

StatusLine(code) ==
    CASE code = 403 -> "403 Forbidden"
      [] code = 404 -> "404 Not Found"
      [] code = 500 -> "500 Internal Server Error"
      [] OTHER -> "200 OK"

\* GET {base}/users/{account}/repos?per_page=P&page=N
ForgeGetRepos(url) ==
    IF forgeListFail.page = url.page
    THEN Response(forgeListFail.status, ErrorBody(forgeListFail.status))
    ELSE Response(200, Slice(forgeRepos, (url.page - 1) * url.per_page,
                                          url.page * url.per_page))

\* GET {base}/repos/{account}/{repository}/releases?per_page=P&page=N
ForgeGetReleases(url) ==
    IF ForgeReleaseFailPage(url.repository) = url.page
    THEN Response(403, ErrorBody(403))
    ELSE Response(200, Slice(ForgeReleases(url.repository),
                             (url.page - 1) * url.per_page, url.page * url.per_page))

\* ------------------------------------------------------- scanner: helpers

ReposUrl(u, page, pp) ==
    [endpoint |-> "repos", user |-> u, repository |-> "", per_page |-> pp, page |-> page]

ReleasesUrl(u, repository, page, pp) ==
    [endpoint |-> "releases", user |-> u, repository |-> repository,
     per_page |-> pp, page |-> page]

getPerPage == IF ScannerPerPage <= 0 THEN perPage ELSE ScannerPerPage

checkPage(page) == IF page < 1 THEN <<"page could not be less than 1">> ELSE nil

\* Mutant: the account name is not checked.
checkUser_unchecked(u) == nil

checkUser(u) == IF u = "" THEN <<"user name could not be empty">> ELSE nil

checkRepository(repository) ==
    IF repository = "" THEN <<"repository name could not be empty">> ELSE nil

getApiErrorMessage(body, defaultMessage) ==
    IF ~body.json THEN defaultMessage ELSE body.Message

\* What a per-page call hands back: the chunk, the error and the HTTP
\* requests it issued.
PageResult(value, e, reqs) == [value |-> value, err |-> e, reqs |-> reqs]

GetReleasesPerPage(u, repository, page) ==
    IF checkPage(page) # nil THEN PageResult(<<>>, checkPage(page), <<>>)
    ELSE IF checkUser(u) # nil THEN PageResult(<<>>, checkUser(u), <<>>)
    ELSE IF checkRepository(repository) # nil
         THEN PageResult(<<>>, checkRepository(repository), <<>>)
    ELSE LET url == ReleasesUrl(u, repository, page, getPerPage)
             response == ForgeGetReleases(url)
         IN  IF response.StatusCode = 0
             THEN PageResult(<<>>, <<"Get: transport failure">>, <<url>>)
             ELSE IF response.StatusCode # 200
             THEN PageResult(<<>>,
                      <<"could not get releases for the repository", repository,
                        getApiErrorMessage(response.body,
                                           StatusLine(response.StatusCode))>>,
                      <<url>>)
             ELSE PageResult(response.body, nil, <<url>>)

GetRepositoriesPerPage(u, page) ==
    IF checkPage(page) # nil THEN PageResult(<<>>, checkPage(page), <<>>)
    ELSE IF checkUser(u) # nil THEN PageResult(<<>>, checkUser(u), <<>>)
    ELSE LET url == ReposUrl(u, page, getPerPage)
             response == ForgeGetRepos(url)
         IN  IF response.StatusCode = 0
             THEN PageResult(<<>>, <<"Get: transport failure">>, <<url>>)
             ELSE IF response.StatusCode = 404
             THEN PageResult(<<>>, <<"account does not exist", u>>, <<url>>)
             ELSE IF response.StatusCode # 200
             THEN PageResult(<<>>,
                      <<"could not get repositories for the account", u,
                        getApiErrorMessage(response.body,
                                           StatusLine(response.StatusCode))>>,
                      <<url>>)
             ELSE PageResult(response.body, nil, <<url>>)

\* ------------------------------------------------------ scanner: listers

\* The state of a lister's loop: the page to request next, the records
\* accumulated, the error, whether the loop has returned, and the requests
\* issued so far.
ListerStart == [page |-> 1, acc |-> <<>>, err |-> nil, done |-> FALSE, reqs |-> <<>>]

\* Mutant: on an error the releases of the earlier pages are returned.
GetAllReleasesStep_keepPartial(u, repository, st) ==
    LET r == GetReleasesPerPage(u, repository, st.page)
    IN  IF r.err # nil
        THEN [st EXCEPT !.err = r.err, !.done = TRUE, !.reqs = @ \o r.reqs]
        ELSE [st EXCEPT !.acc = @ \o r.value,
                        !.done = Len(r.value) < getPerPage,
                        !.page = IF Len(r.value) < getPerPage THEN @ ELSE @ + 1,
                        !.reqs = @ \o r.reqs]

\* Mutant: each chunk is put in front of the releases accumulated so far.
GetAllReleasesStep_prepend(u, repository, st) ==
    LET r == GetReleasesPerPage(u, repository, st.page)
    IN  IF r.err # nil
        THEN [st EXCEPT !.acc = <<>>, !.err = r.err, !.done = TRUE,
                        !.reqs = @ \o r.reqs]
        ELSE [st EXCEPT !.acc = r.value \o @,
                        !.done = Len(r.value) < getPerPage,
                        !.page = IF Len(r.value) < getPerPage THEN @ ELSE @ + 1,
                        !.reqs = @ \o r.reqs]

\* One iteration of the loop of GetAllReleases (lines 113-123) and its
\* return (lines 116, 125).
GetAllReleasesStep(u, repository, st) ==
    LET r == GetReleasesPerPage(u, repository, st.page)
    IN  IF r.err # nil
        THEN [st EXCEPT !.acc = <<>>, !.err = r.err, !.done = TRUE,
                        !.reqs = @ \o r.reqs]
        ELSE [st EXCEPT !.acc = @ \o r.value,
                        !.done = Len(r.value) < getPerPage,
                        !.page = IF Len(r.value) < getPerPage THEN @ ELSE @ + 1,
                        !.reqs = @ \o r.reqs]

\* Mutant: the loop also stops on a page that is exactly full.
GetAllRepositoriesStep_stopOnFull(u, st) ==
    LET r == GetRepositoriesPerPage(u, st.page)
    IN  IF r.err # nil
        THEN [st EXCEPT !.acc = <<>>, !.err = r.err, !.done = TRUE,
                        !.reqs = @ \o r.reqs]
        ELSE [st EXCEPT !.acc = @ \o r.value,
                        !.done = Len(r.value) <= getPerPage,
                        !.page = IF Len(r.value) <= getPerPage THEN @ ELSE @ + 1,
                        !.reqs = @ \o r.reqs]

\* One iteration of the loop of GetAllRepositories (lines 159-169) and its
\* return (lines 162, 171).
GetAllRepositoriesStep(u, st) ==
    LET r == GetRepositoriesPerPage(u, st.page)
    IN  IF r.err # nil
        THEN [st EXCEPT !.acc = <<>>, !.err = r.err, !.done = TRUE,
                        !.reqs = @ \o r.reqs]
        ELSE [st EXCEPT !.acc = @ \o r.value,
                        !.done = Len(r.value) < getPerPage,
                        !.page = IF Len(r.value) < getPerPage THEN @ ELSE @ + 1,
                        !.reqs = @ \o r.reqs]

RECURSIVE GetAllReleasesFrom(_, _, _)
GetAllReleasesFrom(u, repository, st) ==
    IF st.done THEN st
    ELSE GetAllReleasesFrom(u, repository, GetAllReleasesStep(u, repository, st))

RECURSIVE GetAllRepositoriesFrom(_, _)
GetAllRepositoriesFrom(u, st) ==
    IF st.done THEN st
    ELSE GetAllRepositoriesFrom(u, GetAllRepositoriesStep(u, st))

\* The whole call, as the caller sees it.
GetAllReleases(u, repository) ==
    LET st == GetAllReleasesFrom(u, repository, ListerStart)
    IN  PageResult(st.acc, st.err, st.reqs)

GetAllRepositories(u) ==
    LET st == GetAllRepositoriesFrom(u, ListerStart)
    IN  PageResult(st.acc, st.err, st.reqs)

\* ------------------------------------------------- scanner: coordinator

ResultItem(repository, releases) == [Repository |-> repository, Releases |-> releases]

\* Mutant: the comparison never orders two items.
ItemLess_never(a, b) == FALSE

\* The less function handed to sort.SliceStable (line 205).
ItemLess(a, b) ==
    StringLess(repositories[a.Repository].FullName, repositories[b.Repository].FullName)

\* sort.SliceStable: a stable insertion sort; an item goes behind every
\* earlier item that is not greater than it.
InsertStable(sorted, x) ==
    LET later == {k \in 1..Len(sorted) : ItemLess(x, sorted[k])}
        pos == IF later = {} THEN Len(sorted) + 1
               ELSE CHOOSE k \in later : \A m \in later : k <= m
    IN  SubSeq(sorted, 1, pos - 1) \o <<x>> \o SubSeq(sorted, pos, Len(sorted))

\* Mutant: the items are returned in the order they were received.
sortResultItems_unsorted(s) == s

RECURSIVE sortResultItems(_)
sortResultItems(s) ==
    IF s = <<>> THEN <<>>
    ELSE InsertStable(sortResultItems(SubSeq(s, 1, Len(s) - 1)), s[Len(s)])

jobsCount == Len(repositories)

\* Mutant: the comparison with the number of jobs is left out.
workersCountFor_noMin(n) == maxWorkersCount

\* Mutant: the result channel is made one slot short of the job count.
resultsCap_oneLess == jobsCount - 1

\* Line 52: the capacity of jobs.
jobsCap == jobsCount

\* Line 53: the capacity of results.
resultsCap == jobsCount

\* Lines 83-86: the number of workers for n jobs.
workersCountFor(n) == IF n < maxWorkersCount THEN n ELSE maxWorkersCount

workersCount == workersCountFor(jobsCount)

\* fmt.Errorf("could not scan repository for the account %s: %v", user, err)
ScanError(u, cause) == <<"could not scan repository for the account", u>> \o cause

Chan == [buf |-> <<>>, closed |-> FALSE]

\* The local state of a worker goroutine: where it is in the closure of
\* lines 62-81, the job it holds and the loop state of its GetAllReleases.
Worker(pc, repository, st) == [pc |-> pc, repository |-> repository, st |-> st]

WorkerAt(pc) == Worker(pc, 0, ListerStart)

NoCall == [fn |-> "", repository |-> "", page |-> 0]

NoRet == PageResult(<<>>, nil, <<>>)

SeqsUpTo(S, n) == UNION {[1..k -> S] : k \in 0..n}

ListFailures(repos) ==
    {[page |-> 0, status |-> 200]} \cup
    {[page |-> p, status |-> c] :
        p \in 1..((Len(repos) \div getPerPage) + 1), c \in {0, 403, 404, 500}}

Init ==
    /\ user \in Accounts
    /\ forgeRepos \in SeqsUpTo(RepoUniverse, MaxRepos)
    /\ forgeListFail \in ListFailures(forgeRepos)
    /\ call = NoCall
    /\ ret = NoRet
    /\ cpc = "idle"
    /\ lister = ListerStart
    /\ repositories = <<>>
    /\ jobs = Chan
    /\ results = Chan
    /\ errorsClosed = FALSE
    /\ ctxDone = FALSE
    /\ workers = EmptyBag
    /\ i = 0
    /\ items = <<>>
    /\ err = nil
    /\ releaseReqs = <<>>

\* ------------------------------------------- the caller: direct lister calls

Names == {r.Name : r \in RepoUniverse}

Pages == 0..2

scanVars == <<cpc, lister, repositories, jobs, results, errorsClosed, ctxDone,
              workers, i, items, err, releaseReqs>>

forgeVars == <<user, forgeRepos, forgeListFail>>

CallGetRepositoriesPerPage(page) ==
    /\ call = NoCall
    /\ call' = [fn |-> "GetRepositoriesPerPage", repository |-> "", page |-> page]
    /\ ret' = GetRepositoriesPerPage(user, page)
    /\ UNCHANGED <<forgeVars, scanVars>>

CallGetReleasesPerPage(repository, page) ==
    /\ call = NoCall
    /\ call' = [fn |-> "GetReleasesPerPage", repository |-> repository, page |-> page]
    /\ ret' = GetReleasesPerPage(user, repository, page)
    /\ UNCHANGED <<forgeVars, scanVars>>

CallGetAllRepositories ==
    /\ call = NoCall
    /\ call' = [fn |-> "GetAllRepositories", repository |-> "", page |-> 0]
    /\ ret' = GetAllRepositories(user)
    /\ UNCHANGED <<forgeVars, scanVars>>

CallGetAllReleases(repository) ==
    /\ call = NoCall
    /\ call' = [fn |-> "GetAllReleases", repository |-> repository, page |-> 0]
    /\ ret' = GetAllReleases(user, repository)
    /\ UNCHANGED <<forgeVars, scanVars>>

\* --------------------------------------------- ScanRepositories: coordinator

\* The caller invokes ScanRepositories (line 45).
CallScanRepositories ==
    /\ call = NoCall
    /\ call' = [fn |-> "ScanRepositories", repository |-> "", page |-> 0]
    /\ cpc' = "list"
    /\ UNCHANGED <<forgeVars, ret, lister, repositories, jobs, results, errorsClosed,
                   ctxDone, workers, i, items, err, releaseReqs>>

\* Line 46: one iteration of the loop of GetAllRepositories.
ListRepositories ==
    /\ cpc = "list"
    /\ ~lister.done
    /\ lister' = GetAllRepositoriesStep(user, lister)
    /\ UNCHANGED <<forgeVars, call, ret, cpc, repositories, jobs, results, errorsClosed,
                   ctxDone, workers, i, items, err, releaseReqs>>

\* Lines 47-49: the listing failed; return before anything is created.
ListFailed ==
    /\ cpc = "list"
    /\ lister.done
    /\ lister.err # nil
    /\ err' = lister.err
    /\ cpc' = "returned"
    /\ UNCHANGED <<forgeVars, call, ret, lister, repositories, jobs, results,
                   errorsClosed, ctxDone, workers, i, items, releaseReqs>>

\* Mutant: the error of the listing is not looked at.
MakeChannels_ignoreError ==
    /\ cpc = "list"
    /\ lister.done
    /\ repositories' = lister.acc
    /\ jobs' = Chan
    /\ results' = Chan
    /\ errorsClosed' = FALSE
    /\ ctxDone' = FALSE
    /\ releaseReqs' = [k \in 1..Len(lister.acc) |-> <<>>]
    /\ i' = 0
    /\ cpc' = IF Len(lister.acc) = 0 THEN "close" ELSE "workers"
    /\ UNCHANGED <<forgeVars, call, ret, lister, workers, items, err>>

\* Lines 46-60 and 83-86: the listing succeeded; the channels, the context
\* and the deferred cleanup are set up.
MakeChannels ==
    /\ cpc = "list"
    /\ lister.done
    /\ lister.err = nil
    /\ repositories' = lister.acc
    /\ jobs' = Chan
    /\ results' = Chan
    /\ errorsClosed' = FALSE
    /\ ctxDone' = FALSE
    /\ releaseReqs' = [k \in 1..Len(lister.acc) |-> <<>>]
    /\ i' = 0
    /\ cpc' = IF Len(lister.acc) = 0 THEN "close" ELSE "workers"
    /\ UNCHANGED <<forgeVars, call, ret, lister, workers, items, err>>

\* Mutant: the loop runs once more than workersCount times.
StartWorker_oneMore ==
    /\ cpc = "workers"
    /\ i <= workersCount
    /\ workers' = workers (+) SetToBag({WorkerAt("range")})
    /\ i' = IF i + 1 <= workersCount THEN i + 1 ELSE 0
    /\ cpc' = IF i + 1 <= workersCount THEN "workers" ELSE "enqueue"
    /\ UNCHANGED <<forgeVars, call, ret, lister, repositories, jobs, results,
                   errorsClosed, ctxDone, items, err, releaseReqs>>

\* Lines 87-89: go worker(jobs, results, errors).
StartWorker ==
    /\ cpc = "workers"
    /\ i < workersCount
    /\ workers' = workers (+) SetToBag({WorkerAt("range")})
    /\ i' = IF i + 1 < workersCount THEN i + 1 ELSE 0
    /\ cpc' = IF i + 1 < workersCount THEN "workers" ELSE "enqueue"
    /\ UNCHANGED <<forgeVars, call, ret, lister, repositories, jobs, results,
                   errorsClosed, ctxDone, items, err, releaseReqs>>

\* Mutant: every job sent is the pointer to the one loop variable, which
\* ends up holding the last repository.
EnqueueJob_loopVariable ==
    /\ cpc = "enqueue"
    /\ i < jobsCount
    /\ Len(jobs.buf) < jobsCap
    /\ jobs' = [jobs EXCEPT !.buf = Append(@, jobsCount)]
    /\ i' = IF i + 1 < jobsCount THEN i + 1 ELSE 0
    /\ cpc' = IF i + 1 < jobsCount THEN "enqueue" ELSE "close"
    /\ UNCHANGED <<forgeVars, call, ret, lister, repositories, results, errorsClosed,
                   ctxDone, workers, items, err, releaseReqs>>

\* Lines 91-93: jobs <- repository; blocks while the buffer is full.
EnqueueJob ==
    /\ cpc = "enqueue"
    /\ i < jobsCount
    /\ Len(jobs.buf) < jobsCap
    /\ jobs' = [jobs EXCEPT !.buf = Append(@, i + 1)]
    /\ i' = IF i + 1 < jobsCount THEN i + 1 ELSE 0
    /\ cpc' = IF i + 1 < jobsCount THEN "enqueue" ELSE "close"
    /\ UNCHANGED <<forgeVars, call, ret, lister, repositories, results, errorsClosed,
                   ctxDone, workers, items, err, releaseReqs>>

\* Line 94: close(jobs).
CloseJobs ==
    /\ cpc = "close"
    /\ jobs' = [jobs EXCEPT !.closed = TRUE]
    /\ i' = 0
    /\ cpc' = "collect"
    /\ UNCHANGED <<forgeVars, call, ret, lister, repositories, results, errorsClosed,
                   ctxDone, workers, items, err, releaseReqs>>

\* Lines 101-102: the select receives a ResultItem.
CollectResult ==
    /\ cpc = "collect"
    /\ i < jobsCount
    /\ results.buf # <<>>
    /\ items' = Append(items, Head(results.buf))
    /\ results' = [results EXCEPT !.buf = Tail(@)]
    /\ i' = i + 1
    /\ UNCHANGED <<forgeVars, call, ret, cpc, lister, repositories, jobs, errorsClosed,
                   ctxDone, workers, err, releaseReqs>>

\* Mutant: after an error the coordinator goes on collecting outcomes.
CollectError_continue(w) ==
    /\ cpc = "collect"
    /\ i < jobsCount
    /\ BagIn(w, workers)
    /\ w.pc = "senderr"
    /\ ~errorsClosed
    /\ err' = ScanError(user, w.st.err)
    /\ workers' = (workers (-) SetToBag({w})) (+) SetToBag({WorkerAt("cancel")})
    /\ i' = i + 1
    /\ UNCHANGED <<forgeVars, call, ret, cpc, lister, repositories, jobs, results,
                   errorsClosed, ctxDone, items, releaseReqs>>

\* Lines 98-100 with line 71: the select receives the error a worker is
\* sending on the unbuffered channel; the coordinator returns and the worker
\* goes on to line 72.
CollectError(w) ==
    /\ cpc = "collect"
    /\ i < jobsCount
    /\ BagIn(w, workers)
    /\ w.pc = "senderr"
    /\ ~errorsClosed
    /\ err' = ScanError(user, w.st.err)
    /\ workers' = (workers (-) SetToBag({w})) (+) SetToBag({WorkerAt("cancel")})
    /\ cpc' = "cancel"
    /\ UNCHANGED <<forgeVars, call, ret, lister, repositories, jobs, results,
                   errorsClosed, ctxDone, i, items, releaseReqs>>

\* Mutant: the collection loop asks for one outcome more than there are jobs.
SortAndReturn_oneMore ==
    /\ cpc = "collect"
    /\ i > jobsCount
    /\ items' = sortResultItems(items)
    /\ cpc' = "cancel"
    /\ UNCHANGED <<forgeVars, call, ret, lister, repositories, jobs, results,
                   errorsClosed, ctxDone, workers, i, err, releaseReqs>>

\* Lines 105-107: every outcome was a ResultItem; sort and return.
SortAndReturn ==
    /\ cpc = "collect"
    /\ i >= jobsCount
    /\ items' = sortResultItems(items)
    /\ cpc' = "cancel"
    /\ UNCHANGED <<forgeVars, call, ret, lister, repositories, jobs, results,
                   errorsClosed, ctxDone, workers, i, err, releaseReqs>>

\* Mutant: the deferred function does not call cancel().
DeferCancel_noCancel ==
    /\ cpc = "cancel"
    /\ ctxDone' = ctxDone
    /\ cpc' = "closeresults"
    /\ UNCHANGED <<forgeVars, call, ret, lister, repositories, jobs, results,
                   errorsClosed, workers, i, items, err, releaseReqs>>

\* Line 57, deferred: cancel().
DeferCancel ==
    /\ cpc = "cancel"
    /\ ctxDone' = TRUE
    /\ cpc' = "closeresults"
    /\ UNCHANGED <<forgeVars, call, ret, lister, repositories, jobs, results,
                   errorsClosed, workers, i, items, err, releaseReqs>>

\* Line 58, deferred: close(results).
DeferCloseResults ==
    /\ cpc = "closeresults"
    /\ results' = [results EXCEPT !.closed = TRUE]
    /\ cpc' = "closeerrors"
    /\ UNCHANGED <<forgeVars, call, ret, lister, repositories, jobs, errorsClosed,
                   ctxDone, workers, i, items, err, releaseReqs>>

\* Line 59, deferred: close(errors); ScanRepositories returns to its caller.
DeferCloseErrors ==
    /\ cpc = "closeerrors"
    /\ errorsClosed' = TRUE
    /\ cpc' = "returned"
    /\ UNCHANGED <<forgeVars, call, ret, lister, repositories, jobs, results,
                   ctxDone, workers, i, items, err, releaseReqs>>

\* ------------------------------------------------- ScanRepositories: workers

Become(w, v) == (workers (-) SetToBag({w})) (+) SetToBag({v})

\* Line 63: for repository := range jobs.  Receives a job, or leaves the
\* loop when the channel is closed and drained; blocks otherwise.
WorkerReceive(w) ==
    /\ BagIn(w, workers)
    /\ w.pc = "range"
    /\ \/ /\ jobs.buf # <<>>
          /\ jobs' = [jobs EXCEPT !.buf = Tail(@)]
          /\ workers' = Become(w, Worker("select", Head(jobs.buf), ListerStart))
       \/ /\ jobs.buf = <<>>
          /\ jobs.closed
          /\ jobs' = jobs
          /\ workers' = Become(w, WorkerAt("exited"))
    /\ UNCHANGED <<forgeVars, call, ret, cpc, lister, repositories, results,
                   errorsClosed, ctxDone, i, items, err, releaseReqs>>

\* Mutant: the worker does not look at ctx.Done() before a job.
WorkerSelect_noCheck(w) ==
    /\ BagIn(w, workers)
    /\ w.pc = "select"
    /\ workers' = Become(w, Worker("fetch", w.repository, ListerStart))
    /\ UNCHANGED <<forgeVars, call, ret, cpc, lister, repositories, jobs, results,
                   errorsClosed, ctxDone, i, items, err, releaseReqs>>

\* Lines 64-68: the non-blocking check of ctx.Done().
WorkerSelect(w) ==
    /\ BagIn(w, workers)
    /\ w.pc = "select"
    /\ workers' = Become(w, IF ctxDone THEN WorkerAt("exited")
                            ELSE Worker("fetch", w.repository, ListerStart))
    /\ UNCHANGED <<forgeVars, call, ret, cpc, lister, repositories, jobs, results,
                   errorsClosed, ctxDone, i, items, err, releaseReqs>>

\* Mutant: a worker whose fetch failed returns without reporting the error.
WorkerFetch_dropError(w) ==
    /\ BagIn(w, workers)
    /\ w.pc = "fetch"
    /\ LET st == GetAllReleasesStep(user, repositories[w.repository].Name, w.st)
       IN  /\ workers' = Become(w, IF ~st.done THEN Worker("fetch", w.repository, st)
                                   ELSE IF st.err # nil THEN WorkerAt("exited")
                                   ELSE Worker("sendres", w.repository, st))
           /\ releaseReqs' = [releaseReqs EXCEPT ![w.repository] = st.reqs]
    /\ UNCHANGED <<forgeVars, call, ret, cpc, lister, repositories, jobs, results,
                   errorsClosed, ctxDone, i, items, err>>

\* Line 69: one iteration of the loop of GetAllReleases for the job held.
WorkerFetch(w) ==
    /\ BagIn(w, workers)
    /\ w.pc = "fetch"
    /\ LET st == GetAllReleasesStep(user, repositories[w.repository].Name, w.st)
       IN  /\ workers' = Become(w, Worker(IF ~st.done THEN "fetch"
                                          ELSE IF st.err # nil THEN "senderr"
                                          ELSE "sendres",
                                          w.repository, st))
           /\ releaseReqs' = [releaseReqs EXCEPT ![w.repository] = st.reqs]
    /\ UNCHANGED <<forgeVars, call, ret, cpc, lister, repositories, jobs, results,
                   errorsClosed, ctxDone, i, items, err>>

\* Lines 75-79: results <- item.  A send on a closed channel panics.
WorkerSendResult(w) ==
    /\ BagIn(w, workers)
    /\ w.pc = "sendres"
    /\ \/ /\ results.closed
          /\ results' = results
          /\ workers' = Become(w, WorkerAt("panic"))
       \/ /\ ~results.closed
          /\ Len(results.buf) < resultsCap
          /\ results' = [results EXCEPT
                            !.buf = Append(@, ResultItem(w.repository, w.st.acc))]
          /\ workers' = Become(w, WorkerAt("range"))
    /\ UNCHANGED <<forgeVars, call, ret, cpc, lister, repositories, jobs,
                   errorsClosed, ctxDone, i, items, err, releaseReqs>>

\* Line 71: errors <- err, when the channel is or gets closed while the
\* worker is sending: the send panics.
WorkerSendErrorClosed(w) ==
    /\ BagIn(w, workers)
    /\ w.pc = "senderr"
    /\ errorsClosed
    /\ workers' = Become(w, WorkerAt("panic"))
    /\ UNCHANGED <<forgeVars, call, ret, cpc, lister, repositories, jobs, results,
                   errorsClosed, ctxDone, i, items, err, releaseReqs>>

\* Lines 72-73: cancel(); return.
WorkerCancel(w) ==
    /\ BagIn(w, workers)
    /\ w.pc = "cancel"
    /\ ctxDone' = TRUE
    /\ workers' = Become(w, WorkerAt("exited"))
    /\ UNCHANGED <<forgeVars, call, ret, cpc, lister, repositories, jobs, results,
                   errorsClosed, i, items, err, releaseReqs>>

WorkerStates == BagToSet(workers)

Next ==
    \/ \E page \in Pages : CallGetRepositoriesPerPage(page)
    \/ \E repository \in Names, page \in Pages : CallGetReleasesPerPage(repository, page)
    \/ CallGetAllRepositories
    \/ \E repository \in Names : CallGetAllReleases(repository)
    \/ CallScanRepositories
    \/ ListRepositories
    \/ ListFailed
    \/ MakeChannels
    \/ StartWorker
    \/ EnqueueJob
    \/ CloseJobs
    \/ CollectResult
    \/ \E w \in WorkerStates : CollectError(w)
    \/ SortAndReturn
    \/ DeferCancel
    \/ DeferCloseResults
    \/ DeferCloseErrors
    \/ \E w \in WorkerStates : WorkerReceive(w)
    \/ \E w \in WorkerStates : WorkerSelect(w)
    \/ \E w \in WorkerStates : WorkerFetch(w)
    \/ \E w \in WorkerStates : WorkerSendResult(w)
    \/ \E w \in WorkerStates : WorkerSendErrorClosed(w)
    \/ \E w \in WorkerStates : WorkerCancel(w)

Spec == Init /\ [][Next]_vars

\* The goroutine of the caller, once inside ScanRepositories.
CoordinatorStep ==
    \/ ListRepositories
    \/ ListFailed
    \/ MakeChannels
    \/ StartWorker
    \/ EnqueueJob
    \/ CloseJobs
    \/ CollectResult
    \/ \E w \in WorkerStates : CollectError(w)
    \/ SortAndReturn
    \/ DeferCancel
    \/ DeferCloseResults
    \/ DeferCloseErrors

\* The worker goroutines.
WorkerStep ==
    \E w \in WorkerStates :
        \/ WorkerReceive(w)
        \/ WorkerSelect(w)
        \/ WorkerFetch(w)
        \/ WorkerSendResult(w)
        \/ WorkerSendErrorClosed(w)
        \/ WorkerCancel(w)

\* The Go scheduler runs every goroutine that can take a step; an HTTP
\* request against the forge returns.
FairSpec == Spec /\ WF_vars(CoordinatorStep) /\ WF_vars(WorkerStep)

\* ------------------------------------------------------------------ claims

ScanCalled == call.fn = "ScanRepositories"

\* ScanRepositories has returned to its caller.
ScanReturned == ScanCalled /\ cpc = "returned"

\* The listing of line 46 succeeded.
Listed == ScanCalled /\ lister.done /\ lister.err = nil

ScanSucceeded == ScanReturned /\ err = nil

FullNameOf(item) == repositories[item.Repository].FullName

NameOf(item) == repositories[item.Repository].Name

\* The forge refuses a release page the lister asks for, or the repository
\* name is not one a request can be made for.
ReleaseFetchFails(name) ==
    \/ name = ""
    \/ /\ ForgeReleaseFailPage(name) >= 1
       /\ Len(ForgeReleases(name)) >= (ForgeReleaseFailPage(name) - 1) * getPerPage

\* C1: whenever ScanRepositories returns a non-nil error, the item sequence
\* it returns is empty.
C1_NoPartialOutput == (ScanReturned /\ err # nil) => items = <<>>

C3_ScanCompleteness ==
    ScanSucceeded =>
        /\ Len(items) = Len(repositories)
        /\ repositories = forgeRepos
        /\ \A k \in 1..Len(repositories) :
               Cardinality({n \in 1..Len(items) : items[n].Repository = k}) = 1
        /\ \A n \in 1..Len(items) : items[n].Releases = ForgeReleases(NameOf(items[n]))

\* C3 witness: a successful scan of two repositories with different releases.
C3_Witness ==
    /\ ScanSucceeded
    /\ Len(items) = 2
    /\ items[1].Releases # items[2].Releases

\* C4: on every successful return the ResultItems are in non-decreasing
\* order of Repository.FullName.
C4_Sorted ==
    ScanSucceeded =>
        \A a, b \in 1..Len(items) :
            a < b => ~StringLess(FullNameOf(items[b]), FullNameOf(items[a]))

\* C4 witness: the forge listed the greater full name first and the scan
\* returned it last.
C4_Witness ==
    /\ ScanSucceeded
    /\ Len(items) = 2
    /\ StringLess(repositories[2].FullName, repositories[1].FullName)
    /\ items[1].Repository = 2

\* The listed repositories in listing order, each with its releases, sorted.
CanonicalItems ==
    sortResultItems([k \in 1..Len(repositories) |->
                        ResultItem(k, ForgeReleases(repositories[k].Name))])

DistinctFullNames ==
    \A a, b \in 1..Len(repositories) :
        a # b => repositories[a].FullName # repositories[b].FullName

\* C5 as claimed: a successful scan returns one sequence that the forge
\* responses determine, also when two repositories share a full name.
C5_Deterministic == ScanSucceeded => items = CanonicalItems

\* C5, witness of the other run: with two repositories sharing a full name
\* the scan can also return the canonical sequence.
C5_SameFullNameCanonical ==
    /\ ScanSucceeded
    /\ ~DistinctFullNames
    /\ items = CanonicalItems
    /\ items[1].Releases # items[2].Releases

\* C5 as amended: when the listed full names are pairwise distinct, a
\* successful scan returns the one sequence the forge responses determine,
\* whatever order the workers completed in.
C5_DeterministicDistinct == (ScanSucceeded /\ DistinctFullNames) => items = CanonicalItems

\* C5 witness: two repositories with distinct full names, the results
\* arrived in the order opposite to the listing's.
C5_Witness ==
    /\ ScanSucceeded
    /\ DistinctFullNames
    /\ Len(items) = 2
    /\ items[1].Repository = 2
    /\ items[1].Releases # <<>>

\* The number of workers inside GetAllReleases (line 69).
FetchesInProgress ==
    BagCardinality([w \in {x \in WorkerStates : x.pc = "fetch"} |-> CopiesIn(w, workers)])

\* C6: at most min(N, 100) workers exist and at most min(N, 100) release
\* fetches are in progress in every state of a scan of N repositories, once
\* the loop of lines 87-89 is over exactly min(N, 100) were started, and the
\* number of workers computed for any number of jobs up to 200 is min(n, 100).
C6_WorkerCap ==
    /\ \A n \in 0..200 : workersCountFor(n) = Min(n, 100)
    /\ ScanCalled =>
           LET cap == Min(Len(repositories), 100)
           IN  /\ BagCardinality(workers) <= cap
               /\ FetchesInProgress <= cap
               /\ (Listed /\ cpc \notin {"list", "workers"}) =>
                      BagCardinality(workers) = cap

\* C6 witness: every worker of a scan of two repositories is inside a
\* release fetch at the same time.
C6_Witness ==
    /\ ScanCalled
    /\ Len(repositories) = 2
    /\ FetchesInProgress = 2

PagesOf(reqs) == [k \in 1..Len(reqs) |-> reqs[k].page]

UpTo(k) == [p \in 1..k |-> p]

\* The concatenation of the forge's answers to pages 1..k of the listing.
RECURSIVE RepoPages(_)
RepoPages(k) ==
    IF k = 0 THEN <<>>
    ELSE RepoPages(k - 1) \o ForgeGetRepos(ReposUrl(user, k, getPerPage)).body

\* The number of the first page of n records that is shorter than the page size.
ShortPage(n) == (n \div getPerPage) + 1

\* C7: against a forge that answers every page of the listing, the
\* repository lister requests the pages 1, 2, ... in order, goes on to page
\* p+1 exactly when page p was full, stops with the first short page k and
\* returns the concatenation of the pages 1..k.
C7_PaginationTermination ==
    /\ (ScanCalled /\ user # "" /\ forgeListFail.page = 0) =>
           LET n == Len(lister.reqs)
           IN  /\ PagesOf(lister.reqs) = UpTo(n)
               /\ \A k \in 1..n : lister.reqs[k] = ReposUrl(user, k, getPerPage)
               /\ lister.err = nil
               /\ lister.acc = RepoPages(n)
               /\ \A k \in 1..(n - 1) :
                      Len(ForgeGetRepos(lister.reqs[k]).body) = getPerPage
               /\ lister.done =>
                      /\ n = ShortPage(Len(forgeRepos))
                      /\ Len(ForgeGetRepos(lister.reqs[n]).body) < getPerPage
                      /\ lister.acc = forgeRepos
               /\ ~lister.done =>
                      /\ lister.page = n + 1
                      /\ n >= 1 => Len(ForgeGetRepos(lister.reqs[n]).body) = getPerPage
    /\ (call.fn = "GetAllRepositories" /\ user # "" /\ forgeListFail.page = 0) =>
           /\ PagesOf(ret.reqs) = UpTo(ShortPage(Len(forgeRepos)))
           /\ ret.value = RepoPages(Len(ret.reqs))
           /\ ret.value = forgeRepos
           /\ ret.err = nil

\* C7 witness: the lister inside a scan stopped on an empty second page
\* after a full first page.
C7_Witness ==
    /\ ScanCalled
    /\ lister.done
    /\ lister.err = nil
    /\ Len(lister.reqs) = 2
    /\ Len(lister.acc) = getPerPage

\* The concatenation of the forge's answers to pages 1..k of a repository's
\* releases.
RECURSIVE ReleasePages(_, _)
ReleasePages(name, k) ==
    IF k = 0 THEN <<>>
    ELSE ReleasePages(name, k - 1)
             \o ForgeGetReleases(ReleasesUrl(user, name, k, getPerPage)).body

AllItems == {results.buf[k] : k \in 1..Len(results.buf)} \cup {items[k] : k \in 1..Len(items)}

\* C8: the releases of every ResultItem, the releases a worker has
\* accumulated so far and the result of GetAllReleases are the concatenation
\* of the repository's release pages 1, 2, ... in page order, and the pages
\* of one job are requested in that order.
C8_ReleaseOrder ==
    /\ \A item \in AllItems :
           item.Releases = ReleasePages(NameOf(item),
                                        ShortPage(Len(ForgeReleases(NameOf(item)))))
    /\ \A w \in WorkerStates :
           w.pc \in {"fetch", "sendres"} =>
               /\ w.st.acc = ReleasePages(repositories[w.repository].Name, Len(w.st.reqs))
               /\ PagesOf(w.st.reqs) = UpTo(Len(w.st.reqs))
    /\ \A k \in 1..Len(releaseReqs) : PagesOf(releaseReqs[k]) = UpTo(Len(releaseReqs[k]))
    /\ (call.fn = "GetAllReleases" /\ ret.err = nil) =>
           /\ ret.value = ReleasePages(call.repository, Len(ret.reqs))
           /\ PagesOf(ret.reqs) = UpTo(ShortPage(Len(ForgeReleases(call.repository))))

\* C8 witness: a scan returned a repository's releases of two pages while
\* another worker fetched the pages of another repository.
C8_Witness ==
    /\ ScanSucceeded
    /\ Len(items) = 2
    /\ \E k \in 1..2 : Len(releaseReqs[k]) = 2 /\ Len(items[k].Releases) > getPerPage
    /\ \A k \in 1..2 : releaseReqs[k] # <<>>

DirectCalls ==
    {"GetAllRepositories", "GetRepositoriesPerPage", "GetAllReleases", "GetReleasesPerPage"}

\* C9: a call with an empty account name, or a release fetch with an empty
\* repository name, returns an error and issues no HTTP request; a scan
\* with an empty account name starts no worker.
C9_ArgumentValidation ==
    /\ (ScanCalled /\ user = "") =>
           /\ lister.reqs = <<>>
           /\ workers = EmptyBag
           /\ releaseReqs = <<>>
           /\ cpc \in {"list", "returned"}
           /\ lister.done => lister.err # nil
           /\ cpc = "returned" => err # nil
    /\ (call.fn \in DirectCalls /\ user = "") => (ret.err # nil /\ ret.reqs = <<>>)
    /\ (call.fn \in {"GetAllReleases", "GetReleasesPerPage"} /\ call.repository = "") =>
           (ret.err # nil /\ ret.reqs = <<>>)
    /\ \A k \in 1..Len(releaseReqs) : repositories[k].Name = "" => releaseReqs[k] = <<>>
    /\ \A w \in WorkerStates :
           (w.repository # 0 /\ repositories[w.repository].Name = "") =>
               /\ w.pc \in {"select", "fetch", "senderr"}
               /\ w.st.reqs = <<>>
               /\ w.pc = "senderr" => w.st.err # nil

\* C9 witness: a scan with an empty account name has returned.
C9_Witness ==
    /\ ScanReturned
    /\ user = ""
    /\ err # nil

\* C10: when the repository listing fails, ScanRepositories returns an
\* error, starts no worker and performs no release fetch.
C10_ListingFails ==
    (ScanCalled /\ lister.done /\ lister.err # nil) =>
        /\ workers = EmptyBag
        /\ releaseReqs = <<>>
        /\ cpc \in {"list", "returned"}
        /\ cpc = "returned" => err # nil

\* C10 witness: the scan returned after the forge refused the second page
\* of the listing.
C10_Witness ==
    /\ ScanReturned
    /\ lister.err # nil
    /\ forgeListFail.page = 2
    /\ Len(lister.reqs) = 2

\* The error carries the context added at line 99: the account and a cause.
AccountScanFailed(e) ==
    /\ Len(e) > 2
    /\ e[1] = "could not scan repository for the account"
    /\ e[2] = user

\* C11: every error ScanRepositories returns is wrapped with the account
\* and the underlying cause, whether the listing or a release fetch failed.
C11_AllErrorsWrapped == (ScanReturned /\ err # nil) => AccountScanFailed(err)

\* C12: in the state in which ScanRepositories returns, every worker it
\* started has exited.
C12_NoWorkerOutlives == ScanReturned => \A w \in WorkerStates : w.pc = "exited"

\* C13: once the workers are started, every worker eventually terminates
\* normally, by returning from the closure of lines 62-81.
C13_WorkersTerminate ==
    (Listed /\ cpc \notin {"list", "workers"})
        ~> (\A w \in WorkerStates : w.pc = "exited")

\* C14: a listing of no repositories leads to a return with no items and
\* no error, without any worker and without any release request.
C14_EmptyListing ==
    (Listed /\ Len(lister.acc) = 0)
        ~> (/\ ScanReturned
            /\ err = nil
            /\ items = <<>>
            /\ workers = EmptyBag
            /\ releaseReqs = <<>>)

\* C14 witness: the scan of an account without repositories has returned
\* after one request for the listing.
C14_Witness ==
    /\ ScanReturned
    /\ Listed
    /\ Len(repositories) = 0
    /\ Len(lister.reqs) = 1
    /\ results.closed

\* C15: no worker ever sends on a closed channel (a send that panics).
C15_NoSendOnClosed == \A w \in WorkerStates : w.pc # "panic"

\* The number of workers at a position of the closure.
WorkersAt(pc) ==
    BagCardinality([w \in {x \in WorkerStates : x.pc = pc} |-> CopiesIn(w, workers)])

\* C16: a worker that holds a job and finds the cancellation signal raised
\* exits without a release request and without a ResultItem or an error; a
\* worker that has reported an error exits without taking another job.
C16_CancellationCheck ==
    [][/\ (ctxDone /\ WorkersAt("select")' < WorkersAt("select")) =>
              /\ WorkersAt("exited")' = WorkersAt("exited") + 1
              /\ WorkersAt("fetch")' = WorkersAt("fetch")
              /\ UNCHANGED <<releaseReqs, results, jobs, err, items>>
       /\ (WorkersAt("cancel")' < WorkersAt("cancel")) =>
              /\ WorkersAt("exited")' = WorkersAt("exited") + 1
              /\ UNCHANGED <<releaseReqs, results, jobs>>]_vars

\* C16 witness: a job with a valid name left the job channel after the
\* cancellation and was dropped: nobody holds it and nothing was requested.
C16_Witness ==
    /\ ctxDone
    /\ jobs.closed
    /\ \E k \in 1..Len(releaseReqs) :
           /\ repositories[k].Name # ""
           /\ releaseReqs[k] = <<>>
           /\ \A n \in 1..Len(jobs.buf) : jobs.buf[n] # k
           /\ \A w \in WorkerStates : w.repository # k

\* C17: when ScanRepositories has returned after creating its channels the
\* cancellation signal is raised, and a raised signal stays raised.
C17_CancelledOnReturn ==
    /\ []((ScanReturned /\ Listed) => ctxDone)
    /\ [][ctxDone => ctxDone']_vars

\* C17 witness: a scan of two repositories returned without error, so only
\* the deferred function can have raised the signal.
C17_Witness ==
    /\ ScanSucceeded
    /\ Len(items) = 2
    /\ ctxDone

\* C18: both channels have capacity N, the jobs sent are the N listed
\* repositories in order, the job channel is closed after the last of them,
\* neither buffer ever holds more than N, and neither the coordinator's
\* enqueue nor a worker's send of a ResultItem finds its buffer full.
C18_ChannelsBounded ==
    ScanCalled =>
        /\ Len(jobs.buf) <= Len(repositories)
        /\ Len(results.buf) <= Len(repositories)
        /\ Listed /\ cpc # "list" => (jobsCap = Len(repositories) /\ resultsCap = Len(repositories))
        /\ cpc = "enqueue" =>
               /\ Len(jobs.buf) < jobsCap
               /\ ~jobs.closed
               /\ \E k \in 0..i : jobs.buf = SubSeq(UpTo(i), k + 1, i)
        /\ jobs.closed =>
               /\ cpc \notin {"list", "workers", "enqueue", "close"}
               /\ \E k \in 0..Len(repositories) :
                      jobs.buf = SubSeq(UpTo(Len(repositories)), k + 1, Len(repositories))
        /\ \A w \in WorkerStates :
               (w.pc = "sendres" /\ ~results.closed) => Len(results.buf) < resultsCap

\* C18 witness: every job's ResultItem sits in the result channel and none
\* has been collected yet.
C18_Witness ==
    /\ ScanCalled
    /\ Len(repositories) = 2
    /\ Len(results.buf) = 2
    /\ items = <<>>

AfterReturnStatement == {"cancel", "closeresults", "closeerrors", "returned"}

\* C19: the collection loop receives at most N outcomes; the step that
\* receives an error leaves the loop with that error's cause wrapped, and
\* from then on the coordinator receives nothing more and its deferred steps
\* wait for no worker.
C19_ReturnOnFirstError ==
    /\ [](ScanCalled =>
            /\ i <= Len(repositories)
            /\ Len(items) <= Len(repositories)
            /\ (Listed /\ err # nil) =>
                   (cpc \in AfterReturnStatement /\ Len(items) < Len(repositories))
            /\ cpc = "cancel" => ENABLED DeferCancel
            /\ cpc = "closeresults" => ENABLED DeferCloseResults
            /\ cpc = "closeerrors" => ENABLED DeferCloseErrors)
    /\ [][/\ (cpc = "collect" /\ err' # err) =>
                 /\ cpc' = "cancel"
                 /\ items' = items
                 /\ \E w \in WorkerStates :
                        /\ w.pc = "senderr"
                        /\ CopiesIn(w, workers') < CopiesIn(w, workers)
                        /\ err' = <<"could not scan repository for the account", user>>
                                      \o w.st.err
          /\ cpc \in AfterReturnStatement =>
                 /\ items' = items
                 /\ err' = err
                 /\ Len(results.buf') >= Len(results.buf)]_vars

\* C19 witness: the scan returned the error of one repository while the
\* worker of the other was still inside its release fetch.
C19_Witness ==
    /\ ScanReturned
    /\ err # nil
    /\ WorkersAt("fetch") = 1

\* C20: a lister whose request for page j fails has issued exactly the
\* requests for pages 1..j, each once, and returns the error with no
\* records; no job sees a request after its failed one, and a per-page
\* fetcher that fails has issued at most one request.
C20_FailFast ==
    /\ PagesOf(lister.reqs) = UpTo(Len(lister.reqs))
    /\ (ScanCalled /\ lister.err # nil) =>
           /\ lister.done
           /\ lister.acc = <<>>
           /\ user # "" => Len(lister.reqs) = forgeListFail.page
    /\ \A w \in WorkerStates :
           w.st.err # nil =>
               /\ w.pc = "senderr"
               /\ w.st.done
               /\ w.st.acc = <<>>
               /\ PagesOf(w.st.reqs) = UpTo(Len(w.st.reqs))
               /\ Len(w.st.reqs) = ForgeReleaseFailPage(repositories[w.repository].Name)
    /\ \A k \in 1..Len(releaseReqs) :
           /\ PagesOf(releaseReqs[k]) = UpTo(Len(releaseReqs[k]))
           /\ ForgeReleaseFailPage(repositories[k].Name) >= 1 =>
                  Len(releaseReqs[k]) <= ForgeReleaseFailPage(repositories[k].Name)
    /\ (call.fn \in DirectCalls /\ ret.err # nil) =>
           /\ ret.value = <<>>
           /\ call.fn \in {"GetRepositoriesPerPage", "GetReleasesPerPage"} =>
                  Len(ret.reqs) <= 1
           /\ call.fn \in {"GetAllRepositories", "GetAllReleases"} =>
                  PagesOf(ret.reqs) = UpTo(Len(ret.reqs))
           /\ (call.fn = "GetAllRepositories" /\ user # "") =>
                  Len(ret.reqs) = forgeListFail.page
           /\ (call.fn = "GetAllReleases" /\ user # "" /\ call.repository # "") =>
                  Len(ret.reqs) = ForgeReleaseFailPage(call.repository)

\* C20 witness: a worker's second release request was refused after a full
\* first page, and the worker holds the error and no releases.
C20_Witness ==
    \E w \in WorkerStates :
        /\ w.pc = "senderr"
        /\ Len(w.st.reqs) = 2
        /\ w.st.acc = <<>>

====
